---- MODULE Spec2Model ----
(***************************************************************************)
(* Model of ktune (src/ktune/ktune.py): the timed trajectory drivers       *)
(* run_sine_test and run_step_test, the step-overshoot metric              *)
(* compute_step_overshoots, and main with its two driver processes and     *)
(* their queues.                                                           *)
(*                                                                         *)
(* Time is counted in integer ticks.  time.time() is the variable now; it  *)
(* advances only while a coroutine is suspended in an await (an RPC or a   *)
(* sleep).  start_time, the origin shared by both drivers, is tick 0; the  *)
(* driver process starts some ticks after it.                              *)
(*                                                                         *)
(* A float is a record [k, n, d]: k = "num" is the rational n/d (d > 0,    *)
(* lowest terms), k = "nan" is float('nan'), k = "inf"/"ninf" are the      *)
(* infinities, k = "none" is Python's None.                                *)
(***************************************************************************)
EXTENDS Integers, Sequences, FiniteSets, TLC

\* ------------------------------------------------------------------ bounds
\* Longest sine test duration, in ticks.
MaxDuration == 9
\* Longest delay between the capture of start_time and the driver's start.
MaxStartDelay == 1
\* Largest amplitude of the sine test.
MaxAmp == 2
\* Most endpoint faults in one run: a stalled query, or a response that is
\* empty or lacks a field.
MaxFaults == 1
\* Largest step_count of the schedules given to compute_step_overshoots.
MaxStepCount == 2
\* Most samples of a series given to compute_step_overshoots.
MaxSamples == 2
\* Latest timestamp of such a series.
MaxSampleTime == 7

\* ------------------------------------------------- program quantities
\* dt = 1.0 / update_rate of run_sine_test, in ticks.
DT == 3
\* One period of the sine wave, 1 / freq, in ticks: a tick is a quarter period.
WaveTicks == 4
\* 2*pi*freq in milli-radians per tick: (pi/2) * 1000, rounded.
OmegaMilli == 1571

\* sample_period = 1.0 / sample_rate of run_step_test, in ticks.
SamplePeriod == 2
\* vel_limit as run_sim_test and run_real_test pass it.
VelLimit == 400

\* Latency of one command_actuators or configure_actuator call.
CmdLatencies == {0, 1}
\* Latency of one get_actuators_state call that answers promptly.
JitterLatencies == {0, 1}
\* Latency of one get_actuators_state call that stalls: more than two periods.
StallLatency == 7
\* How much later than asked asyncio.sleep returns.
Oversleeps == {0, 1}

\* ------------------------------------------------------------------ floats
Num(x) == [k |-> "num", n |-> x, d |-> 1]
NaN == [k |-> "nan", n |-> 0, d |-> 1]
None == [k |-> "none", n |-> 0, d |-> 1]
PosInf == [k |-> "inf", n |-> 0, d |-> 1]
NegInf == [k |-> "ninf", n |-> 0, d |-> 1]

IsNum(x) == x.k = "num"
IsNaN(x) == x.k = "nan"

\* ------------------------------------------------------- actuator endpoint
\* The values the endpoint reports for the position and for the velocity.
ReportedPosition == Num(12)
ReportedVelocity == Num(3)
\* response.states of get_actuators_state: empty, or one state whose position
\* and velocity are each a number or absent (None).
NoStates == [empty |-> TRUE, position |-> None, velocity |-> None]
StateOf(p, v) == [empty |-> FALSE, position |-> p, velocity |-> v]
FullState == StateOf(ReportedPosition, ReportedVelocity)
Responses ==
    { NoStates,
      FullState,
      StateOf(None, ReportedVelocity),
      StateOf(ReportedPosition, None) }

\* What one get_actuators_state call can do after f faults: its latency, its
\* response, and the faults it adds.
QueryOutcomes(f) ==
    { o \in [ lat : JitterLatencies \cup {StallLatency}, resp : Responses,
              cost : 0 .. 2 ] :
        /\ o.cost = (IF o.lat = StallLatency THEN 1 ELSE 0)
                     + (IF o.resp # FullState THEN 1 ELSE 0)
        /\ f + o.cost <= MaxFaults }

VARIABLES
    test,           \* args.test: "sine" or "step"
    pc,             \* where the driver coroutine is suspended
    now,            \* time.time()
    data_dict,      \* the record: six lists
    amplitude,      \* sine: amplitude
    duration,       \* sine: duration, in ticks
    request_state,  \* sine: whether the measured state is queried
    steps,          \* sine: the number of iterations
    i,              \* sine: loop index
    next_tick,      \* sine: the absolute deadline of the current iteration
    first_tick,     \* history: next_tick as first set (line 185)
    sleeps,         \* history: per finished iteration, the sleep asked for (0: none)
    oversleeps,     \* history: the largest oversleep of asyncio.sleep so far
    query_log,      \* history: per get_state call, the index it wrote and the response
    faults,         \* history: endpoint faults so far
    step_size,      \* step: step_size
    step_hold_time, \* step: step_hold_time, in ticks
    step_count,     \* step: step_count
    phase,          \* step: 0 the initial hold, 2k-1 the k-th step up, 2k the k-th step down
    end_hold,       \* step: when the current hold ends
    time_array,     \* compute_step_overshoots: time_array
    pos_array,      \* compute_step_overshoots: pos_array
    steps_list,     \* compute_step_overshoots: steps, as main builds it
    tr,             \* compute_step_overshoots: the loop index i
    overshoots,     \* compute_step_overshoots: the list returned
    emitted,        \* history: for each entry of overshoots, its transition
    command_times,  \* history: the command_time of each transition considered
    max_overshoot,  \* main: max_overshoot_sim or max_overshoot_real
    stop_time,      \* collect_data: stop_time
    next_sample,    \* collect_data: next_sample
    is_real,        \* run_sine_test, run_step_test: is_real
    configure_log,  \* history: the gains chosen and the keywords of each configure_actuator call
    configures,     \* history: the configure_actuator calls awaited so far
    rpc_log,        \* history: the command and query calls, each with its issue and return time
    phase_log,      \* history: step: per phase, its command time and row, end_hold, samples
    main_pc,        \* main: where the orchestrator is
    no_log,         \* main: args.no_log
    proc,           \* main: sim_proc and real_proc, each with the rows of its record
    chan,           \* main: sim_queue and real_queue, each a buffer and a pipe
    recv,           \* main: per queue, how much of the record get() has read
    got,            \* main: sim_data and real_data as returned by get()
    plot_saved,     \* main: whether plt.savefig has written the image
    exit_code       \* main: the exit status of the orchestrator, once it has one

vars == << test, pc, now, data_dict, amplitude, duration, request_state, steps, i,
           next_tick, first_tick, sleeps, oversleeps, query_log, faults,
           step_size, step_hold_time, step_count, phase, end_hold,
           time_array, pos_array, steps_list, tr, overshoots, emitted,
           command_times, max_overshoot, stop_time, next_sample, is_real, configure_log, configures, rpc_log, phase_log, main_pc, no_log, proc, chan, recv,
           got, plot_saved, exit_code >>

analysis == << time_array, pos_array, steps_list, tr, overshoots, emitted,
               command_times, max_overshoot >>
driver == << now, data_dict, amplitude, duration, request_state, steps, i,
             next_tick, first_tick, sleeps, oversleeps, query_log, faults,
             step_size, step_hold_time, step_count, phase, end_hold, configures, configure_log,
             rpc_log, phase_log >>

orch == << main_pc, no_log, proc, chan, recv, got, plot_saved, exit_code >>

sineVars == << amplitude, duration, request_state >>
sineLoop == << steps, i, next_tick, first_tick, sleeps >>
stepVars == << step_size, step_hold_time, step_count >>
stepLoop == << phase, end_hold >>
hist == << configures, configure_log, rpc_log, phase_log >>
collector == << stop_time, next_sample >>

\* start_time: the origin captured by main before the drivers start.
StartTime == 0

EmptyRecord ==
    [ time |-> << >>, position |-> << >>, velocity |-> << >>,
      cmd_time |-> << >>, cmd_pos |-> << >>, cmd_vel |-> << >> ]

\* The subtraction with its operands swapped.
ElapsedSwapped(t, start) == start - t

\* time.time() - start_time
Elapsed(t, start) == t - start

\* The three appends of a command row (lines 194-196, 291-293).
AppendCommand(d, t, p, v) ==
    [ d EXCEPT !.cmd_time = Append(@, t),
               !.cmd_pos = Append(@, p),
               !.cmd_vel = Append(@, v) ]

\* A measurement row that leaves a missing velocity out.
AppendMeasurementDropMissing(d, t, p, v) ==
    [ d EXCEPT !.time = Append(@, t),
               !.position = Append(@, p),
               !.velocity = IF v = NaN THEN @ ELSE Append(@, v) ]

\* The three appends of a measurement row (lines 220-222, 317-319).
AppendMeasurement(d, t, p, v) ==
    [ d EXCEPT !.time = Append(@, t),
               !.position = Append(@, p),
               !.velocity = Append(@, v) ]

\* One command_actuators or get_actuators_state call: the operation, the
\* position it commands (0 for a query), when it was awaited and when the
\* await returned.
Rpc(op, target, issued, returned) ==
    [op |-> op, target |-> target, issued |-> issued, returned |-> returned]

\* A query awaited together with the command before it.
QueryIssuedWithCommand(log, t) == log[Len(log)].issued

\* When get_actuators_state is awaited: when the coroutine runs again, after
\* the await of the call before it has returned (lines 199-206, 299-307).
QueryIssued(log, t) == t

\* ------------------------------------------------------------ sine driver
\* sin and cos of 2*pi*freq*t at tick t: a tick is a quarter period.
Sin4(t) == CASE t % WaveTicks = 0 -> 0
             [] t % WaveTicks = 1 -> 1
             [] t % WaveTicks = 2 -> 0
             [] OTHER -> -1
Cos4(t) == CASE t % WaveTicks = 0 -> 1
             [] t % WaveTicks = 1 -> 0
             [] t % WaveTicks = 2 -> -1
             [] OTHER -> 0

\* dt = 1.0 / update_rate; steps = int(duration / dt) (lines 173-174).  dt is
\* a rounded float and so is the quotient: when duration is a whole number of
\* periods the quotient can fall just below the integer, and int() truncates
\* it (0.94 / (1.0 / 50.0) is 46.99999999999999, 0.3 / (1.0 / 10.0) is
\* 2.9999999999999996).  A duration of k * DT ticks stands for every duration
\* of k periods, so both outcomes are kept: the set of the values steps can
\* take.  A duration that is not a whole number of periods is a tick or more
\* away from one, far beyond the rounding, and has the one outcome.
SineSteps(dur) ==
    IF dur > 0 /\ dur % DT = 0
    THEN {dur \div DT - 1, dur \div DT}
    ELSE {dur \div DT}

\* t = i * dt
SineT(k) == k * DT

\* angle = amplitude * sin(2 pi freq t)
SineAngle(amp, t) == amp * Sin4(t)

\* The velocity with the sine in place of the cosine.
SineVelSin(amp, t) == amp * OmegaMilli * Sin4(t)

\* vel = amplitude * (2 pi freq) * cos(2 pi freq t)
SineVel(amp, t) == amp * OmegaMilli * Cos4(t)

\* measured_pos, measured_vel of run_sine_test (lines 208-213): the fields of
\* the first state as they are, or nan when there is no state.
SineMeasured(resp) ==
    IF ~resp.empty
    THEN << resp.position, resp.velocity >>
    ELSE << NaN, NaN >>

\* A relative sleep: the next deadline is one period after the iteration ends.
SineNextTickRelative(tick, t) == t + DT

\* A deadline that is moved up to the clock when it has passed.
SineNextTickResync(tick, t) == IF t > tick + DT THEN t ELSE tick + DT

\* next_tick += dt
SineNextTick(tick, t) == tick + DT

\* The end of one iteration (lines 225-228) at time t: the next deadline, and
\* either a sleep or the next iteration at once.
SineAfterIteration(t) ==
    LET tick == SineNextTick(next_tick, t)
        sleep_time == tick - t
    IN  /\ next_tick' = tick
        /\ sleeps' = Append(sleeps, IF sleep_time > 0 THEN sleep_time ELSE 0)
        /\ IF sleep_time > 0
           THEN /\ pc' = "sleep"
                /\ i' = i
           ELSE /\ i' = i + 1
                /\ pc' = IF i + 1 < steps THEN "command" ELSE "done"

\* The gains and limits of the command line, in hundredths: the defaults of
\* --kp, --kd, --ki, --sim-kp, --sim-kv, --acceleration and --max-torque.
kp == 2000
kd == 5500
ki == 1
sim_kp == 2400
sim_kv == 75
acceleration == 200000
max_torque == 10000
\* not args.torque_off
torque_enabled == TRUE

\* used_kp, used_kd, used_ki of run_sine_test (lines 144-152).
SineGains(real) ==
    IF real
    THEN [used_kp |-> kp, used_kd |-> kd, used_ki |-> ki]
    ELSE [used_kp |-> sim_kp, used_kd |-> sim_kv, used_ki |-> 0]

\* used_kp, used_kd, used_ki of run_step_test with the simulator's used_ki of
\* run_sine_test.
StepGainsZeroKi(real) ==
    IF real
    THEN [used_kp |-> kp, used_kd |-> kd, used_ki |-> ki]
    ELSE [used_kp |-> sim_kp, used_kd |-> sim_kv, used_ki |-> 0]

\* used_kp, used_kd, used_ki of run_step_test (lines 258-265).
StepGains(real) ==
    IF real
    THEN [used_kp |-> kp, used_kd |-> kd, used_ki |-> ki]
    ELSE [used_kp |-> sim_kp, used_kd |-> sim_kv, used_ki |-> ki]

\* The configure_actuator call of run_sine_test (lines 155-169): the gains
\* chosen and the keywords passed beside actuator_id.
SineConfigureCall(real) ==
    LET used == SineGains(real)
    IN  [ used |-> used,
          kwargs |-> IF real
                     THEN [kp |-> used.used_kp, kd |-> used.used_kd, ki |-> used.used_ki,
                           acceleration |-> acceleration, max_torque |-> max_torque,
                           torque_enabled |-> torque_enabled]
                     ELSE [kp |-> used.used_kp, kd |-> used.used_kd,
                           max_torque |-> max_torque,
                           torque_enabled |-> torque_enabled] ]

\* The configure_actuator call of run_step_test (lines 280-286).
StepConfigureCall(real) ==
    LET used == StepGains(real)
    IN  [ used |-> used,
          kwargs |-> [kp |-> used.used_kp, kd |-> used.used_kd, ki |-> used.used_ki,
                      acceleration |-> acceleration, max_torque |-> max_torque,
                      torque_enabled |-> torque_enabled] ]

\* await configure_actuator(...), then lines 173-185.
SineConfigure ==
    /\ test = "sine" /\ pc = "configure"
    /\ \E lat \in CmdLatencies :
         /\ now' = now + lat
         /\ next_tick' = now + lat
         /\ first_tick' = now + lat
    /\ configures' = configures + 1
    /\ configure_log' = Append(configure_log, SineConfigureCall(is_real))
    /\ i' = 0
    /\ \E n \in SineSteps(duration) :
         /\ steps' = n
         /\ pc' = IF 0 < n THEN "command" ELSE "done"
    /\ UNCHANGED << test, is_real, collector, analysis, orch, data_dict, sineVars, sleeps, oversleeps,
                    query_log, faults, stepVars, stepLoop, rpc_log, phase_log >>

\* configure_actuator raises: the run ends with the exception.
SineConfigureFails ==
    /\ test = "sine" /\ pc = "configure"
    /\ configures' = configures + 1
    /\ configure_log' = Append(configure_log, SineConfigureCall(is_real))
    /\ pc' = "failed"
    /\ UNCHANGED << test, is_real, collector, analysis, orch, now, data_dict, sineVars, sineLoop, oversleeps,
                    query_log, faults, stepVars, stepLoop, rpc_log, phase_log >>

\* Lines 188-201: the command row is logged, then the command is sent.
SineCommand ==
    /\ test = "sine" /\ pc = "command"
    /\ data_dict' = AppendCommand(data_dict, Elapsed(now, StartTime),
                                  SineAngle(amplitude, SineT(i)),
                                  SineVel(amplitude, SineT(i)))
    /\ \E lat \in CmdLatencies :
         /\ now' = now + lat
         /\ rpc_log' = Append(rpc_log, Rpc("command", SineAngle(amplitude, SineT(i)),
                                            now, now + lat))
    /\ pc' = "query"
    /\ UNCHANGED << test, is_real, collector, analysis, orch, sineVars, sineLoop, oversleeps, query_log, faults,
                    stepVars, stepLoop, configures, configure_log, phase_log >>

\* command_actuators raises after the row was logged.
SineCommandFails ==
    /\ test = "sine" /\ pc = "command"
    /\ data_dict' = AppendCommand(data_dict, Elapsed(now, StartTime),
                                  SineAngle(amplitude, SineT(i)),
                                  SineVel(amplitude, SineT(i)))
    /\ rpc_log' = Append(rpc_log, Rpc("command", SineAngle(amplitude, SineT(i)),
                                       now, now))
    /\ pc' = "failed"
    /\ UNCHANGED << test, is_real, collector, analysis, orch, now, sineVars, sineLoop, oversleeps, query_log,
                    faults, stepVars, stepLoop, configures, configure_log, phase_log >>

\* Lines 204-213, 220-228 with request_state: the state is queried and logged.
SineQuery ==
    /\ test = "sine" /\ pc = "query" /\ request_state
    /\ \E o \in QueryOutcomes(faults) :
         LET m == SineMeasured(o.resp)
         IN  /\ now' = now + o.lat
             /\ faults' = faults + o.cost
             /\ data_dict' = AppendMeasurement(data_dict,
                                 Elapsed(now + o.lat, StartTime), m[1], m[2])
             /\ query_log' = Append(query_log,
                                 [idx |-> Len(data_dict.time) + 1, resp |-> o.resp,
                                  lat |-> o.lat])
             /\ rpc_log' = Append(rpc_log, Rpc("query", 0, QueryIssued(rpc_log, now),
                                                now + o.lat))
             /\ SineAfterIteration(now + o.lat)
    /\ UNCHANGED << test, is_real, collector, analysis, orch, sineVars, steps, first_tick, oversleeps, stepVars,
                    stepLoop, configures, configure_log, phase_log >>

\* get_actuators_state raises (line 205): the run ends with the exception,
\* after the command row and before any measurement row.
SineQueryFails ==
    /\ test = "sine" /\ pc = "query" /\ request_state
    /\ rpc_log' = Append(rpc_log, Rpc("query", 0, QueryIssued(rpc_log, now), now))
    /\ pc' = "failed"
    /\ UNCHANGED << test, is_real, collector, analysis, orch, now, data_dict, sineVars,
                    sineLoop, oversleeps, query_log, faults, stepVars, stepLoop,
                    configures, configure_log, phase_log >>

\* Lines 214-228 without request_state: the measurement is the command.
SineAssumeState ==
    /\ test = "sine" /\ pc = "query" /\ ~request_state
    /\ data_dict' = AppendMeasurement(data_dict, Elapsed(now, StartTime),
                                      Num(SineAngle(amplitude, SineT(i))),
                                      Num(SineVel(amplitude, SineT(i))))
    /\ SineAfterIteration(now)
    /\ UNCHANGED << test, is_real, collector, analysis, orch, now, sineVars, steps, first_tick, oversleeps,
                    query_log, faults, stepVars, stepLoop, hist >>

\* asyncio.sleep(sleep_time) returns, at the deadline or later.
SineWake ==
    /\ test = "sine" /\ pc = "sleep"
    /\ \E over \in Oversleeps :
         /\ now' = next_tick + over
         /\ oversleeps' = IF over > oversleeps THEN over ELSE oversleeps
    /\ i' = i + 1
    /\ pc' = IF i + 1 < steps THEN "command" ELSE "done"
    /\ UNCHANGED << test, is_real, collector, analysis, orch, data_dict, sineVars, steps, next_tick, first_tick,
                    sleeps, query_log, faults, stepVars, stepLoop, hist >>

SineNext ==
    \/ SineConfigure
    \/ SineConfigureFails
    \/ SineCommand
    \/ SineCommandFails
    \/ SineQuery
    \/ SineQueryFails
    \/ SineAssumeState
    \/ SineWake

\* ------------------------------------------------------------ step driver
\* A schedule without the initial hold at 0: it starts with the step up.
StepTargetUpFirst(ph, size) == IF ph % 2 = 0 THEN size ELSE 0

\* The target of a phase: 0 for the initial hold and every step down,
\* step_size for every step up.
StepTarget(ph, size) == IF ph % 2 = 1 THEN size ELSE 0

\* The position logged beside the command of a phase (lines 295, 333, 365):
\* 0.0 at the initial hold and at a step up, step_size at a step down.
StepLoggedPosition(ph, size) == IF ph > 0 /\ ph % 2 = 0 THEN Num(size) ELSE Num(0)

\* measured_pos, measured_vel of run_step_test (lines 309-316): nan for no
\* state and for an absent field.
StepMeasured(resp) ==
    IF ~resp.empty
    THEN << IF resp.position # None THEN resp.position ELSE NaN,
            IF resp.velocity # None THEN resp.velocity ELSE NaN >>
    ELSE << NaN, NaN >>

\* Where a hold loop goes when its condition is read at time t (lines 306,
\* 342, 373, and the for loop of line 326).
StepAfterSample(t) ==
    IF t < end_hold'
    THEN /\ pc' = "query"
         /\ phase' = phase
    ELSE IF phase < 2 * step_count
    THEN /\ pc' = "command"
         /\ phase' = phase + 1
    ELSE /\ pc' = "done"
         /\ phase' = phase

\* await configure_actuator(...) of line 280.
StepConfigure ==
    /\ test = "step" /\ pc = "configure"
    /\ \E lat \in CmdLatencies :
         /\ now' = now + lat
    /\ configures' = configures + 1
    /\ configure_log' = Append(configure_log, StepConfigureCall(is_real))
    /\ pc' = "command"
    /\ UNCHANGED << test, is_real, collector, analysis, orch, data_dict, sineVars, sineLoop, oversleeps,
                    query_log, faults, stepVars, stepLoop, rpc_log, phase_log >>

StepConfigureFails ==
    /\ test = "step" /\ pc = "configure"
    /\ configures' = configures + 1
    /\ configure_log' = Append(configure_log, StepConfigureCall(is_real))
    /\ pc' = "failed"
    /\ UNCHANGED << test, is_real, collector, analysis, orch, now, data_dict, sineVars, sineLoop, oversleeps,
                    query_log, faults, stepVars, stepLoop, rpc_log, phase_log >>

\* The rows logged at the start of a phase (lines 290-296, 328-334, 360-366).
StepLogCommand(d, t, ph, size) ==
    AppendMeasurement(
        AppendCommand(d, t, StepTarget(ph, size), VelLimit),
        t, StepLoggedPosition(ph, size), Num(0))

\* The start of a phase: the rows are logged, the command is sent, and the
\* hold begins when it returns (lines 290-306, 328-342, 360-373).
StepCommand ==
    /\ test = "step" /\ pc = "command"
    /\ data_dict' = StepLogCommand(data_dict, Elapsed(now, StartTime), phase,
                                   step_size)
    /\ \E lat \in CmdLatencies :
         /\ now' = now + lat
         /\ end_hold' = now + lat + step_hold_time
         /\ rpc_log' = Append(rpc_log, Rpc("command", StepTarget(phase, step_size),
                                            now, now + lat))
         /\ phase_log' = Append(phase_log,
                               [phase |-> phase, start |-> now,
                                row |-> Len(data_dict.time) + 1,
                                end_hold |-> now + lat + step_hold_time,
                                samples |-> 0])
         /\ StepAfterSample(now + lat)
    /\ UNCHANGED << test, is_real, collector, analysis, orch, sineVars, sineLoop, oversleeps, query_log, faults,
                    stepVars, configures, configure_log >>

StepCommandFails ==
    /\ test = "step" /\ pc = "command"
    /\ data_dict' = StepLogCommand(data_dict, Elapsed(now, StartTime), phase,
                                   step_size)
    /\ rpc_log' = Append(rpc_log, Rpc("command", StepTarget(phase, step_size),
                                       now, now))
    /\ pc' = "failed"
    /\ UNCHANGED << test, is_real, collector, analysis, orch, now, sineVars, sineLoop, oversleeps, query_log,
                    faults, stepVars, stepLoop, configures, configure_log, phase_log >>

\* A sample logged without its command row.
StepLogSampleNoCommand(d, t, m, ph, size) == AppendMeasurement(d, t, m[1], m[2])

\* The rows of one sample of a hold (lines 317-322, 351-356, 382-387).
StepLogSample(d, t, m, ph, size) ==
    AppendCommand(AppendMeasurement(d, t, m[1], m[2]),
                  t, StepTarget(ph, size), VelLimit)

\* One sample of a hold: the state is queried and logged with a command row
\* (lines 307-322, 343-356, 374-387).
StepQuery ==
    /\ test = "step" /\ pc = "query"
    /\ \E o \in QueryOutcomes(faults) :
         /\ now' = now + o.lat
         /\ faults' = faults + o.cost
         /\ data_dict' = StepLogSample(data_dict, Elapsed(now + o.lat, StartTime),
                                       StepMeasured(o.resp), phase, step_size)
         /\ query_log' = Append(query_log,
                             [idx |-> Len(data_dict.time) + 1, resp |-> o.resp,
                              lat |-> o.lat])
         /\ rpc_log' = Append(rpc_log, Rpc("query", 0, QueryIssued(rpc_log, now),
                                            now + o.lat))
    /\ phase_log' = [phase_log EXCEPT ![Len(phase_log)].samples = @ + 1]
    /\ pc' = "sleep"
    /\ UNCHANGED << test, is_real, collector, analysis, orch, sineVars, sineLoop, oversleeps, stepVars, stepLoop,
                    configures, configure_log >>

\* get_actuators_state raises (lines 307, 343, 374): the run ends with the
\* exception and the sample is not logged.
StepQueryFails ==
    /\ test = "step" /\ pc = "query"
    /\ rpc_log' = Append(rpc_log, Rpc("query", 0, QueryIssued(rpc_log, now), now))
    /\ pc' = "failed"
    /\ UNCHANGED << test, is_real, collector, analysis, orch, now, data_dict, sineVars,
                    sineLoop, oversleeps, query_log, faults, stepVars, stepLoop,
                    configures, configure_log, phase_log >>

\* asyncio.sleep(sample_period) returns and the hold's condition is read.
StepWake ==
    /\ test = "step" /\ pc = "sleep"
    /\ \E over \in Oversleeps :
         /\ now' = now + SamplePeriod + over
         /\ oversleeps' = IF over > oversleeps THEN over ELSE oversleeps
         /\ end_hold' = end_hold
         /\ StepAfterSample(now + SamplePeriod + over)
    /\ UNCHANGED << test, is_real, collector, analysis, orch, data_dict, sineVars, sineLoop, query_log, faults,
                    stepVars, hist >>

StepNext ==
    \/ StepConfigure
    \/ StepConfigureFails
    \/ StepCommand
    \/ StepCommandFails
    \/ StepQuery
    \/ StepQueryFails
    \/ StepWake

\* ----------------------------------------------------------- collect_data
\* The latest stop_time of a collection, in ticks.
MaxStopTime == 5
\* dt = 1.0 / sample_rate (line 35), in ticks.
CollectDt == 2

\* Lines 48-53: a row is appended when state_list is not empty, with nan for
\* an absent position or velocity; an empty state_list appends nothing.
CollectLog(d, t, resp) ==
    IF ~resp.empty
    THEN AppendMeasurement(d, t,
                           IF resp.position # None THEN resp.position ELSE NaN,
                           IF resp.velocity # None THEN resp.velocity ELSE NaN)
    ELSE d

\* Lines 54-57: the deadline moves on by dt, and the loop sleeps when the
\* deadline is still ahead.
CollectAfterQuery(t) ==
    /\ next_sample' = next_sample + CollectDt
    /\ pc' = IF next_sample + CollectDt - t > 0 THEN "sleep" ELSE "loop"

\* One iteration (lines 42-56): now is read and is not past stop_time, the
\* state is queried, and the row is stamped with the time read before the
\* query.
CollectQuery ==
    /\ test = "collect" /\ pc = "loop"
    /\ ~(now > stop_time)
    /\ \E o \in QueryOutcomes(faults) :
         /\ now' = now + o.lat
         /\ faults' = faults + o.cost
         /\ data_dict' = CollectLog(data_dict, Elapsed(now, StartTime), o.resp)
         /\ query_log' = Append(query_log,
                             [idx |-> Len(query_log) + 1, resp |-> o.resp,
                              lat |-> o.lat])
         /\ rpc_log' = Append(rpc_log, Rpc("query", 0, QueryIssued(rpc_log, now),
                                            now + o.lat))
         /\ CollectAfterQuery(now + o.lat)
    /\ UNCHANGED << test, is_real, analysis, orch, sineVars, sineLoop, oversleeps,
                    stepVars, stepLoop, configures, configure_log, phase_log,
                    stop_time >>

\* get_actuators_state raises: collect_data ends with the exception.
CollectQueryFails ==
    /\ test = "collect" /\ pc = "loop"
    /\ ~(now > stop_time)
    /\ rpc_log' = Append(rpc_log, Rpc("query", 0, QueryIssued(rpc_log, now), now))
    /\ pc' = "failed"
    /\ UNCHANGED << test, is_real, analysis, orch, now, data_dict, sineVars, sineLoop,
                    oversleeps, query_log, faults, stepVars, stepLoop, configures,
                    configure_log, phase_log, collector >>

\* asyncio.sleep(sleep_time) returns, at the deadline or after it.
CollectWake ==
    /\ test = "collect" /\ pc = "sleep"
    /\ \E over \in Oversleeps :
         /\ now' = next_sample + over
    /\ pc' = "loop"
    /\ UNCHANGED << test, is_real, analysis, orch, data_dict, sineVars, sineLoop,
                    oversleeps, query_log, faults, stepVars, stepLoop, hist,
                    collector >>

\* Lines 42-44: now is past stop_time and the loop is left.
CollectStop ==
    /\ test = "collect" /\ pc = "loop"
    /\ now > stop_time
    /\ pc' = "done"
    /\ UNCHANGED << test, is_real, analysis, orch, now, data_dict, sineVars, sineLoop,
                    oversleeps, query_log, faults, stepVars, stepLoop, hist,
                    collector >>

CollectNext == CollectQuery \/ CollectQueryFails \/ CollectWake \/ CollectStop

\* ------------------------------------------------- compute_step_overshoots
RECURSIVE GCD(_, _)
GCD(a, b) == IF b = 0 THEN a ELSE GCD(b, a % b)
Abs(x) == IF x < 0 THEN -x ELSE x

\* The float n/d (d # 0) in lowest terms with a positive denominator.
Rat(n, d) ==
    LET g == GCD(Abs(n), Abs(d))
        sgn == IF d < 0 THEN -1 ELSE 1
    IN  [k |-> "num", n |-> sgn * (n \div g), d |-> sgn * (d \div g)]

\* a - b on floats: nan when either is nan.
FSub(a, b) ==
    IF IsNum(a) /\ IsNum(b) THEN Rat(a.n * b.d - b.n * a.d, a.d * b.d) ELSE NaN

\* a / b as numpy divides float64: x / 0 is inf, -inf or nan, never an exception.
FDiv(a, b) ==
    IF ~(IsNum(a) /\ IsNum(b)) THEN NaN
    ELSE IF b.n = 0
    THEN (IF a.n > 0 THEN PosInf ELSE IF a.n < 0 THEN NegInf ELSE NaN)
    ELSE Rat(a.n * b.d, a.d * b.n)

\* a * 100.0
FTimes100(a) == IF IsNum(a) THEN Rat(a.n * 100, a.d) ELSE a

\* a > b on floats: false when either is nan.
FGt(a, b) ==
    CASE IsNaN(a) \/ IsNaN(b) -> FALSE
      [] a.k = "inf" -> b.k # "inf"
      [] b.k = "ninf" -> a.k # "ninf"
      [] a.k = "ninf" \/ b.k = "inf" -> FALSE
      [] OTHER -> a.n * b.d > b.n * a.d

\* Python's max with the arguments the wrong way round: max(overshoot, 0.0).
PyMaxSwapped(a, b) == IF FGt(a, b) THEN a ELSE b

\* Python's max(a, b): b when b > a, and a otherwise.
PyMax(a, b) == IF FGt(b, a) THEN b ELSE a

\* np.max and np.min of a non-empty array: nan when an element is nan.
NpMax(arr) ==
    IF \E j \in 1 .. Len(arr) : IsNaN(arr[j]) THEN NaN
    ELSE CHOOSE x \in {arr[j] : j \in 1 .. Len(arr)} :
             \A j \in 1 .. Len(arr) : ~FGt(arr[j], x)
NpMin(arr) ==
    IF \E j \in 1 .. Len(arr) : IsNaN(arr[j]) THEN NaN
    ELSE CHOOSE x \in {arr[j] : j \in 1 .. Len(arr)} :
             \A j \in 1 .. Len(arr) : ~FGt(x, arr[j])

\* vel of main (line 588): args has no vel_limit.
DefaultVel == 200
\* window_duration as main passes it (lines 595-596).
WindowDuration == 1

\* steps_list of main (lines 589-592).
RECURSIVE StepsList(_, _, _)
StepsList(size, hold, count) ==
    IF count = 0
    THEN << [target |-> 0, velocity |-> DefaultVel, duration |-> hold] >>
    ELSE StepsList(size, hold, count - 1)
         \o << [target |-> size, velocity |-> DefaultVel, duration |-> hold],
               [target |-> 0, velocity |-> DefaultVel, duration |-> hold] >>

\* Cumulative times that start at the end of the first phase.
RECURSIVE StepTimesNoOrigin(_)
StepTimesNoOrigin(st) ==
    IF st = << >> THEN << >>
    ELSE LET before == StepTimesNoOrigin(SubSeq(st, 1, Len(st) - 1))
         IN  Append(before, (IF before = << >> THEN 0 ELSE before[Len(before)])
                            + st[Len(st)].duration)

\* step_times (lines 86-88): step_times[k] of the code is StepTimes(st)[k + 1].
RECURSIVE StepTimes(_)
StepTimes(st) ==
    IF st = << >> THEN << 0 >>
    ELSE LET before == StepTimes(SubSeq(st, 1, Len(st) - 1))
         IN  Append(before, before[Len(before)] + st[Len(st)].duration)

\* command_time = step_times[i] (line 95)
CommandTime(st, k) == StepTimes(st)[k + 1]

\* A window that leaves out the samples at its end.
WindowIdxOpenEnd(times, command_time, window_end) ==
    SelectSeq([j \in 1 .. Len(times) |-> j],
              LAMBDA j : times[j] >= command_time /\ times[j] < window_end)

\* idx = np.where((time_array >= command_time) & (time_array <= window_end))[0]
WindowIdx(times, command_time, window_end) ==
    SelectSeq([j \in 1 .. Len(times) |-> j],
              LAMBDA j : times[j] >= command_time /\ times[j] <= window_end)

\* p_window = pos_array[idx]
Take(arr, idx) == [j \in 1 .. Len(idx) |-> arr[idx[j]]]

\* overshoot of lines 104-111, before it is clamped.
RawOvershoot(p_window, old_target, new_target) ==
    IF new_target > old_target
    THEN FTimes100(FDiv(FSub(NpMax(p_window), Num(new_target)),
                        Num(new_target - old_target)))
    ELSE FTimes100(FDiv(FSub(Num(new_target), NpMin(p_window)),
                        Num(old_target - new_target)))

\* An empty window reported as 0.0 instead of being skipped.
AppendOvershootZeroForEmpty(ovs, p_window, old_target, new_target) ==
    IF Len(p_window) = 0
    THEN Append(ovs, Num(0))
    ELSE Append(ovs, PyMax(Num(0), RawOvershoot(p_window, old_target, new_target)))

\* Lines 100-114: an empty window is skipped (continue), any other appends
\* max(0.0, overshoot).
AppendOvershoot(ovs, p_window, old_target, new_target) ==
    IF Len(p_window) = 0
    THEN ovs
    ELSE Append(ovs, PyMax(Num(0), RawOvershoot(p_window, old_target, new_target)))

\* One pass of the loop of line 92, for transition tr.
ComputeTransition ==
    /\ test = "analysis" /\ pc = "loop"
    /\ tr < Len(steps_list)
    /\ LET old_target == steps_list[tr].target
           new_target == steps_list[tr + 1].target
           command_time == CommandTime(steps_list, tr)
           window_end == command_time + WindowDuration
           idx == WindowIdx(time_array, command_time, window_end)
           p_window == Take(pos_array, idx)
       IN  /\ command_times' = Append(command_times, command_time)
           /\ overshoots' = AppendOvershoot(overshoots, p_window, old_target,
                                            new_target)
           /\ emitted' = IF Len(idx) = 0 THEN emitted ELSE Append(emitted, tr)
    /\ tr' = tr + 1
    /\ UNCHANGED << test, is_real, collector, pc, driver, orch, time_array, pos_array, steps_list,
                    max_overshoot >>

\* return overshoots (line 116)
ComputeReturn ==
    /\ test = "analysis" /\ pc = "loop"
    /\ tr >= Len(steps_list)
    /\ pc' = "return"
    /\ UNCHANGED << test, is_real, collector, driver, orch, analysis >>

\* Python's max(list) of a non-empty list: the first element, replaced by each
\* later one that compares greater.
RECURSIVE PyMaxList(_)
PyMaxList(seq) ==
    IF Len(seq) = 1 THEN seq[1]
    ELSE PyMax(PyMaxList(SubSeq(seq, 1, Len(seq) - 1)), seq[Len(seq)])

\* The last entry in place of the largest.
MaxOvershootOfLast(ovs) == IF Len(ovs) > 0 THEN ovs[Len(ovs)] ELSE Num(0)

\* max_overshoot_sim, max_overshoot_real of main (lines 597-598).
MaxOvershoot(ovs) == IF Len(ovs) > 0 THEN PyMaxList(ovs) ELSE Num(0)

\* main takes the headline figure of the list returned (lines 595-598).
MainHeadline ==
    /\ test = "analysis" /\ pc = "return"
    /\ max_overshoot' = MaxOvershoot(overshoots)
    /\ pc' = "headline"
    /\ UNCHANGED << test, is_real, collector, driver, orch, time_array, pos_array, steps_list, tr,
                    overshoots, emitted, command_times >>

\* ------------------------------------------------------------------- main
\* Most rows of the record of one driver run.
MaxRows == 2
\* What the pipe of a multiprocessing.Queue holds before a write blocks, in the
\* unit of one row of a record (the operating system's pipe buffer).
PipeCapacity == 2

\* sim_proc and real_proc.
Children == {"sim", "real"}
\* The size of a pickled record of so many rows: the six keys, and the rows.
RecordSize(rows) == 1 + rows
\* sim_data, real_data before queue.get() has returned.
NoRecord == [present |-> FALSE, rows |-> 0]
RecordOf(rows) == [present |-> TRUE, rows |-> rows]

InitOrchestration ==
    /\ proc = [c \in Children |-> [st |-> "unstarted", rows |-> 0, run |-> "pending"]]
    /\ chan = [c \in Children |-> [buffer |-> 0, pipe |-> 0, sent |-> 0]]
    /\ recv = [c \in Children |-> 0]
    /\ got = [c \in Children |-> NoRecord]
    /\ plot_saved = FALSE
    /\ exit_code = "none"

\* A child that puts its record whether or not the run raised (a finally).
AfterRunAlwaysPut(q, rows, ok) ==
    [ buffer |-> RecordSize(rows), pipe |-> q.pipe, sent |-> RecordSize(rows) ]

\* The queue after asyncio.run(...) of run_sim_test or run_real_test (lines
\* 397-438, 447-488): out_queue.put(data) when the run returned, nothing when
\* it raised.  put leaves the pickled record in the queue's buffer.
AfterRun(q, rows, ok) ==
    IF ok
    THEN [ buffer |-> RecordSize(rows), pipe |-> q.pipe, sent |-> RecordSize(rows) ]
    ELSE q

\* sim_proc.start() (line 562): the simulator's child runs from here on,
\* before and while the other child is started.
MainStartSim ==
    /\ test = "main" /\ main_pc = "start"
    /\ proc' = [proc EXCEPT !["sim"].st = "running"]
    /\ main_pc' = "start_real"
    /\ UNCHANGED << test, is_real, collector, pc, driver, analysis, no_log, chan, recv, got, plot_saved,
                    exit_code >>

\* real_proc.start() (line 563).
MainStartReal ==
    /\ test = "main" /\ main_pc = "start_real"
    /\ proc' = [proc EXCEPT !["real"].st = "running"]
    /\ main_pc' = "join_sim"
    /\ UNCHANGED << test, is_real, collector, pc, driver, analysis, no_log, chan, recv, got, plot_saved,
                    exit_code >>

\* One more iteration of the driver run of child c: one more row in its record.
ChildRow(c) ==
    /\ test = "main" /\ proc[c].st = "running"
    /\ proc[c].rows < MaxRows
    /\ proc' = [proc EXCEPT ![c].rows = @ + 1]
    /\ UNCHANGED << test, is_real, collector, pc, driver, analysis, main_pc, no_log, chan, recv, got,
                    plot_saved, exit_code >>

\* The driver run of child c returns: the record is put, and the process
\* goes on to exit.
ChildCompletes(c) ==
    /\ test = "main" /\ proc[c].st = "running"
    /\ chan' = [chan EXCEPT ![c] = AfterRun(@, proc[c].rows, TRUE)]
    /\ proc' = [proc EXCEPT ![c].st = "exiting", ![c].run = "returned"]
    /\ UNCHANGED << test, is_real, collector, pc, driver, analysis, main_pc, no_log, recv, got, plot_saved,
                    exit_code >>

\* A configure, command or query call of child c raises: the exception leaves
\* asyncio.run and the target function without a put, and the process goes on
\* to exit with a non-zero code.
ChildFails(c) ==
    /\ test = "main" /\ proc[c].st = "running"
    /\ chan' = [chan EXCEPT ![c] = AfterRun(@, proc[c].rows, FALSE)]
    /\ proc' = [proc EXCEPT ![c].st = "exiting", ![c].run = "raised"]
    /\ UNCHANGED << test, is_real, collector, pc, driver, analysis, main_pc, no_log, recv, got, plot_saved,
                    exit_code >>

\* The feeder thread of the queue of child c writes the buffered record to
\* the pipe, as far as the pipe has room.
FeederWrite(c) ==
    /\ test = "main"
    /\ chan[c].buffer > 0 /\ chan[c].pipe < PipeCapacity
    /\ chan' = [chan EXCEPT ![c].buffer = @ - 1, ![c].pipe = @ + 1]
    /\ UNCHANGED << test, is_real, collector, pc, driver, analysis, main_pc, no_log, proc, recv, got,
                    plot_saved, exit_code >>

\* Child c exits: a process that has put to a queue first joins the feeder
\* thread, which ends when the buffer is flushed to the pipe.
ChildExit(c) ==
    /\ test = "main" /\ proc[c].st = "exiting"
    /\ chan[c].buffer = 0
    /\ proc' = [proc EXCEPT ![c].st = "exited"]
    /\ UNCHANGED << test, is_real, collector, pc, driver, analysis, main_pc, no_log, chan, recv, got,
                    plot_saved, exit_code >>

\* sim_proc.join() (line 565) returns once the process has exited.
MainJoinSim ==
    /\ test = "main" /\ main_pc = "join_sim"
    /\ proc["sim"].st = "exited"
    /\ main_pc' = "join_real"
    /\ UNCHANGED << test, is_real, collector, pc, driver, analysis, no_log, proc, chan, recv, got,
                    plot_saved, exit_code >>

\* real_proc.join() (line 566)
MainJoinReal ==
    /\ test = "main" /\ main_pc = "join_real"
    /\ proc["real"].st = "exited"
    /\ main_pc' = "get_sim"
    /\ UNCHANGED << test, is_real, collector, pc, driver, analysis, no_log, proc, chan, recv, got,
                    plot_saved, exit_code >>

\* queue.get() of child c reads from the pipe, and returns the record when all
\* of it has arrived; with nothing in the pipe it blocks.
MainGet(c, after) ==
    /\ chan[c].pipe > 0
    /\ chan' = [chan EXCEPT ![c].pipe = @ - 1]
    /\ recv' = [recv EXCEPT ![c] = @ + 1]
    /\ IF recv[c] + 1 = chan[c].sent
       THEN /\ got' = [got EXCEPT ![c] = RecordOf(chan[c].sent - 1)]
            /\ main_pc' = after
       ELSE UNCHANGED << got, main_pc >>
    /\ UNCHANGED << test, is_real, collector, pc, driver, analysis, no_log, proc, plot_saved, exit_code >>

\* sim_data = sim_queue.get() (line 568)
MainGetSim ==
    /\ test = "main" /\ main_pc = "get_sim"
    /\ MainGet("sim", "get_real")

\* real_data = real_queue.get() (line 569), then the test of line 572.
MainGetReal ==
    /\ test = "main" /\ main_pc = "get_real"
    /\ MainGet("real", "log")

\* Lines 572-651 when not args.no_log: the figure is drawn and saved.
MainPlot ==
    /\ test = "main" /\ main_pc = "log" /\ ~no_log
    /\ plot_saved' = TRUE
    /\ main_pc' = "complete"
    /\ UNCHANGED << test, is_real, collector, pc, driver, analysis, no_log, proc, chan, recv, got,
                    exit_code >>

\* Line 572 with args.no_log: nothing is drawn.
MainNoLog ==
    /\ test = "main" /\ main_pc = "log" /\ no_log
    /\ main_pc' = "complete"
    /\ UNCHANGED << test, is_real, collector, pc, driver, analysis, no_log, proc, chan, recv, got,
                    plot_saved, exit_code >>

\* print("Test complete.") and the return of main: the process exits 0.
MainComplete ==
    /\ test = "main" /\ main_pc = "complete"
    /\ main_pc' = "done"
    /\ exit_code' = "0"
    /\ UNCHANGED << test, is_real, collector, pc, driver, analysis, no_log, proc, chan, recv, got,
                    plot_saved >>

ChildNext(c) ==
    \/ ChildRow(c)
    \/ ChildCompletes(c)
    \/ ChildFails(c)
    \/ FeederWrite(c)
    \/ ChildExit(c)

NextMain ==
    \/ MainStartSim
    \/ MainStartReal
    \/ \E c \in Children : ChildNext(c)
    \/ MainJoinSim
    \/ MainJoinReal
    \/ MainGetSim
    \/ MainGetReal
    \/ MainPlot
    \/ MainNoLog
    \/ MainComplete

\* ----------------------------------------------------------- specification
\* The step sizes, hold times (in ticks) and step counts tried.
StepSizes == {10}
HoldTimes == {1, 3}
StepCounts == {0, 1}

InitCommon ==
    /\ pc = "configure"
    /\ now \in StartTime .. (StartTime + MaxStartDelay)
    /\ data_dict = EmptyRecord
    /\ steps = 0
    /\ i = 0
    /\ next_tick = 0
    /\ first_tick = 0
    /\ sleeps = << >>
    /\ oversleeps = 0
    /\ query_log = << >>
    /\ faults = 0
    /\ phase = 0
    /\ end_hold = 0
    /\ configures = 0
    /\ configure_log = << >>
    /\ stop_time = 0
    /\ next_sample = 0
    /\ rpc_log = << >>
    /\ phase_log = << >>

InitNoAnalysis ==
    /\ time_array = << >>
    /\ pos_array = << >>
    /\ steps_list = << >>
    /\ tr = 1
    /\ overshoots = << >>
    /\ emitted = << >>
    /\ command_times = << >>
    /\ max_overshoot = None

\* The orchestrator before it starts, for the runs that leave it out.
InitNoMain ==
    /\ main_pc = "start"
    /\ no_log = FALSE
    /\ InitOrchestration

InitSine ==
    /\ test = "sine"
    /\ amplitude \in 1 .. MaxAmp
    /\ duration \in 0 .. MaxDuration
    /\ request_state \in BOOLEAN
    /\ step_size = 0
    /\ step_hold_time = 0
    /\ step_count = 0

InitStep ==
    /\ test = "step"
    /\ amplitude = 0
    /\ duration = 0
    /\ request_state = TRUE
    /\ step_size \in StepSizes
    /\ step_hold_time \in HoldTimes
    /\ step_count \in StepCounts

\* The runs of run_real_test, which passes is_real=True (lines 464, 486).
InitRealTarget == is_real = TRUE

Init == InitCommon /\ InitRealTarget /\ InitNoAnalysis /\ InitNoMain /\ (InitSine \/ InitStep)

Next == SineNext \/ StepNext

Spec == Init /\ [][Next]_vars

\* A step run on its own, which goes on as long as it can: the event loop
\* runs the coroutine whenever the await it is suspended in has returned.
InitStepRun == InitCommon /\ InitRealTarget /\ InitNoAnalysis /\ InitNoMain /\ InitStep

SpecStep == InitStepRun /\ [][StepNext]_vars /\ WF_vars(StepNext)

\* The runs of both targets: run_sim_test passes is_real=False (lines 414,
\* 436), run_real_test is_real=True. The sine durations and the hold times are
\* the short ones, the choice of the gains does not depend on them.
GainDurations == {0, 4, 5}
GainHoldTimes == {1}

InitGains ==
    /\ InitCommon
    /\ is_real \in BOOLEAN
    /\ InitNoAnalysis
    /\ InitNoMain
    /\ \/ InitSine /\ duration \in GainDurations
       \/ InitStep /\ step_hold_time \in GainHoldTimes

SpecGains == InitGains /\ [][Next]_vars

\* collect_data on its own, called with the start_time of main: it starts at
\* or after start_time, and stop_time is at or after start_time.
InitCollect ==
    /\ test = "collect"
    /\ pc = "loop"
    /\ InitRealTarget
    /\ now \in StartTime .. (StartTime + MaxStartDelay)
    /\ stop_time \in StartTime .. (StartTime + MaxStopTime)
    /\ next_sample = StartTime
    /\ data_dict = EmptyRecord
    /\ amplitude = 0 /\ duration = 0 /\ request_state = TRUE
    /\ steps = 0 /\ i = 0 /\ next_tick = 0 /\ first_tick = 0
    /\ sleeps = << >> /\ oversleeps = 0 /\ query_log = << >> /\ faults = 0
    /\ phase = 0 /\ end_hold = 0 /\ rpc_log = << >> /\ phase_log = << >>
    /\ configures = 0 /\ configure_log = << >>
    /\ step_size = 0 /\ step_hold_time = 0 /\ step_count = 0
    /\ InitNoAnalysis
    /\ InitNoMain

SpecCollect == InitCollect /\ [][CollectNext]_vars

\* compute_step_overshoots on its own: the inputs are drawn from bounded sets.
\* The positions of a series: below 0, between the targets, above step_size, nan.
SamplePositions == {Num(-1), Num(9), Num(11), NaN}
\* The step sizes and hold durations of the schedules.
AnalysisStepSizes == {-10, 0, 10}
AnalysisHolds == {1, 3}

\* The non-decreasing time arrays of one length.
TimeArrays(len) ==
    { t \in [1 .. len -> 0 .. MaxSampleTime] :
        \A j \in 1 .. len - 1 : t[j] <= t[j + 1] }

\* The two windows of the documented examples, recorded after the transitions
\* at 3 and 6 of a schedule with step_size 10 and hold 3.
ExampleTimes == << 3, 3, 3, 4, 4, 6, 6, 6, 7, 7 >>
ExamplePositions ==
    << Num(0), Num(4), Num(11), Num(9), Num(10),
       Num(10), Num(6), Num(-1), Num(2), Num(0) >>

InitOvershoot ==
    /\ test = "analysis"
    /\ pc = "loop"
    /\ InitRealTarget
    /\ now = 0
    /\ data_dict = EmptyRecord
    /\ amplitude = 0 /\ duration = 0 /\ request_state = TRUE
    /\ steps = 0 /\ i = 0 /\ next_tick = 0 /\ first_tick = 0
    /\ sleeps = << >> /\ oversleeps = 0 /\ query_log = << >> /\ faults = 0
    /\ phase = 0 /\ end_hold = 0 /\ rpc_log = << >> /\ phase_log = << >>
    /\ configures = 0
    /\ configure_log = << >>
    /\ stop_time = 0
    /\ next_sample = 0
    /\ step_size \in AnalysisStepSizes
    /\ step_hold_time \in AnalysisHolds
    /\ step_count \in 0 .. MaxStepCount
    /\ steps_list = StepsList(step_size, step_hold_time, step_count)
    /\ \/ \E len \in 0 .. MaxSamples :
            /\ time_array \in TimeArrays(len)
            /\ pos_array \in [1 .. len -> SamplePositions]
       \/ /\ time_array = ExampleTimes
          /\ pos_array = ExamplePositions
    /\ tr = 1
    /\ overshoots = << >>
    /\ emitted = << >>
    /\ command_times = << >>
    /\ max_overshoot = None
    /\ InitNoMain

NextOvershoot == ComputeTransition \/ ComputeReturn \/ MainHeadline

SpecOvershoot == InitOvershoot /\ [][NextOvershoot]_vars

\* main on its own: the two driver runs are taken as a whole.
InitMain ==
    /\ test = "main"
    /\ pc = "configure"
    /\ InitRealTarget
    /\ now = 0
    /\ data_dict = EmptyRecord
    /\ amplitude = 0 /\ duration = 0 /\ request_state = TRUE
    /\ steps = 0 /\ i = 0 /\ next_tick = 0 /\ first_tick = 0
    /\ sleeps = << >> /\ oversleeps = 0 /\ query_log = << >> /\ faults = 0
    /\ phase = 0 /\ end_hold = 0 /\ rpc_log = << >> /\ phase_log = << >>
    /\ configures = 0
    /\ configure_log = << >>
    /\ stop_time = 0
    /\ next_sample = 0
    /\ step_size = 0 /\ step_hold_time = 0 /\ step_count = 0
    /\ InitNoAnalysis
    /\ main_pc = "start"
    /\ no_log \in BOOLEAN
    /\ InitOrchestration

SpecMain == InitMain /\ [][NextMain]_vars

\* ------------------------------------------------------------------ claims
Max2(a, b) == IF a >= b THEN a ELSE b
NonDecreasing(seq) == \A k \in 1 .. Len(seq) - 1 : seq[k] <= seq[k + 1]
\* The I/O latency of sine iteration k: from the command row to the measurement row.
IterationLatency(k) == data_dict.time[k] - data_dict.cmd_time[k]

\* C1: at every suspension point and at the end of a sine or step run, time,
\* position and velocity have one length, and cmd_time, cmd_pos and cmd_vel
\* have one length, whatever the endpoint answers.
C1_RecordAligned ==
    /\ Len(data_dict.time) = Len(data_dict.position)
    /\ Len(data_dict.position) = Len(data_dict.velocity)
    /\ Len(data_dict.cmd_time) = Len(data_dict.cmd_pos)
    /\ Len(data_dict.cmd_pos) = Len(data_dict.cmd_vel)

\* A step run that ended after a query the endpoint answered with no state.
C1_Witness ==
    /\ test = "step" /\ pc = "done"
    /\ \E q \in 1 .. Len(query_log) : query_log[q].resp = NoStates
    /\ Len(data_dict.time) >= 3

\* C2: time and cmd_time are non-decreasing at every point of a sine or step
\* run, whatever the latencies.
C2_TimesNonDecreasing ==
    /\ NonDecreasing(data_dict.time)
    /\ NonDecreasing(data_dict.cmd_time)

\* A finished sine run whose clock moved between the rows.
C2_Witness ==
    /\ test = "sine" /\ pc = "done"
    /\ Len(data_dict.time) >= 2
    /\ data_dict.time[1] < data_dict.time[2]
    /\ data_dict.cmd_time[1] < data_dict.cmd_time[2]
    /\ data_dict.cmd_time[1] < data_dict.time[1]

\* C3: every get_state call of a sine or step run appends one measurement row,
\* and its position (velocity) is nan when the endpoint returned no state or a
\* state without a position (velocity), and the reported value otherwise.
C3_MissingRecordedAsNaN ==
    /\ \A q \in 1 .. Len(query_log) :
         LET r == query_log[q].resp
             at == query_log[q].idx
         IN  /\ at \in 1 .. Len(data_dict.time)
             /\ data_dict.position[at] =
                  (IF r.empty \/ r.position = None THEN NaN ELSE r.position)
             /\ data_dict.velocity[at] =
                  (IF r.empty \/ r.velocity = None THEN NaN ELSE r.velocity)
    /\ \A q \in 1 .. Len(query_log) - 1 : query_log[q].idx < query_log[q + 1].idx

\* C4: a sine run of duration D at rate R ends after exactly floor(D * R)
\* commands and as many rows in each of the six lists, whatever the endpoint
\* answers and however long it takes: with dt = 1 / R, the n with
\* n * dt <= D < (n + 1) * dt.
C4_SineRunLength ==
    (test = "sine" /\ pc = "done") =>
        \E n \in 0 .. duration :
            /\ n * DT <= duration /\ duration < (n + 1) * DT
            /\ Len(data_dict.cmd_time) = n
            /\ Len(data_dict.cmd_pos) = n
            /\ Len(data_dict.cmd_vel) = n
            /\ Len(data_dict.time) = n
            /\ Len(data_dict.position) = n
            /\ Len(data_dict.velocity) = n

\* C5: when every iteration of a sine run so far had an I/O latency below dt
\* (and no sleep returned a period late), iteration k was dispatched in
\* [T0 + k dt, T0 + (k + 1) dt), and the finished run took less than one
\* period more than steps * dt.
C5_DriftCorrected ==
    ( /\ test = "sine"
      /\ \A k \in 1 .. Len(data_dict.time) : IterationLatency(k) < DT
      /\ oversleeps < DT )
    =>
    ( /\ \A k \in 1 .. Len(data_dict.cmd_time) :
           /\ first_tick + (k - 1) * DT <= StartTime + data_dict.cmd_time[k]
           /\ StartTime + data_dict.cmd_time[k] < first_tick + k * DT
      /\ pc = "done" =>
           /\ first_tick + steps * DT <= now
           /\ now < first_tick + (steps + 1) * DT )

\* A finished sine run of two or more iterations whose latencies were nonzero,
\* different and below dt.
C5_Witness ==
    /\ test = "sine" /\ pc = "done" /\ steps >= 2
    /\ \A k \in 1 .. Len(data_dict.time) :
         IterationLatency(k) > 0 /\ IterationLatency(k) < DT
    /\ \E k, m \in 1 .. Len(data_dict.time) : IterationLatency(k) # IterationLatency(m)

\* C6 as claimed: after an iteration whose latency exceeds two periods, no
\* later iteration goes on to the next one without a sleep.
C6_NoCatchUpBurst ==
    test = "sine" =>
        \A k \in 1 .. Len(sleeps) :
            IterationLatency(k) >= 2 * DT =>
                \A j \in (k + 1) .. Len(sleeps) : sleeps[j] > 0

\* C6 as amended: the deadline of iteration j is T0 + j dt whatever happened
\* before; an iteration that ends at or after its deadline does not sleep and
\* the next command is dispatched at once, so the iterations that follow a
\* long one run back to back until the schedule is caught up.
C6_CatchUpSchedule ==
    test = "sine" =>
        /\ next_tick = first_tick + Len(sleeps) * DT
        /\ \A j \in 1 .. Len(sleeps) :
             /\ sleeps[j] = Max2(0, first_tick + j * DT
                                      - (StartTime + data_dict.time[j]))
             /\ (sleeps[j] = 0 /\ j < Len(data_dict.cmd_time)) =>
                   data_dict.cmd_time[j + 1] = data_dict.time[j]

\* An iteration more than two periods long, and the two after it without a sleep.
C6_Witness ==
    /\ test = "sine"
    /\ \E k \in 1 .. Len(sleeps) :
         /\ IterationLatency(k) >= 2 * DT
         /\ k + 2 <= Len(sleeps)
         /\ sleeps[k] = 0 /\ sleeps[k + 1] = 0 /\ sleeps[k + 2] = 0

\* The position wave and its derivative at tick t: the derivative of the sine
\* is the sine a quarter period earlier in phase, times 2 pi freq.
WavePos(amp, t) == amp * Sin4(t)
WaveVel(amp, t) == OmegaMilli * WavePos(amp, t + WaveTicks \div 4)

\* C7 as claimed: every command row of a sine run holds the wave and its
\* derivative at the recorded cmd_time.
C7_CmdAtRecordedTime ==
    test = "sine" =>
        \A k \in 1 .. Len(data_dict.cmd_time) :
            /\ data_dict.cmd_pos[k] = WavePos(amplitude, data_dict.cmd_time[k])
            /\ data_dict.cmd_vel[k] = WaveVel(amplitude, data_dict.cmd_time[k])

\* C7 as amended: command row i holds the wave and its derivative at the
\* nominal time i * dt, whatever cmd_time[i] is.
C7_CmdAtNominalTime ==
    test = "sine" =>
        \A k \in 1 .. Len(data_dict.cmd_time) :
            /\ data_dict.cmd_pos[k] = WavePos(amplitude, (k - 1) * DT)
            /\ data_dict.cmd_vel[k] = WaveVel(amplitude, (k - 1) * DT)

\* A sine run whose second command was recorded at another time than dt.
C7_Witness ==
    /\ test = "sine"
    /\ Len(data_dict.cmd_time) >= 2
    /\ data_dict.cmd_time[2] # DT
    /\ data_dict.cmd_pos[2] # 0
    /\ data_dict.cmd_vel[1] # 0

\* The samples whose timestamps lie in [command_time, command_time + window].
WindowSamples(command_time) ==
    { j \in 1 .. Len(time_array) :
        command_time <= time_array[j] /\ time_array[j] <= command_time + WindowDuration }
WindowValues(command_time) == { pos_array[j] : j \in WindowSamples(command_time) }
\* The largest and the smallest number of a set of numbers with denominator 1.
Highest(vals) == CHOOSE x \in {v.n : v \in vals} : \A v \in vals : v.n <= x
Lowest(vals) == CHOOSE x \in {v.n : v \in vals} : \A v \in vals : x <= v.n
\* Whether the float x is max(0, num / den), for den > 0.
IsClampedRatio(x, num, den) ==
    /\ IsNum(x)
    /\ IF num <= 0 THEN x.n = 0 ELSE x.n * den = num * x.d
OldTarget(t) == steps_list[t].target
NewTarget(t) == steps_list[t + 1].target

\* C8: for every transition with a non-empty window of numbers, the entry is
\* max(0, (max(window) - new) / (new - old) * 100) for a step up and
\* max(0, (new - min(window)) / (old - new) * 100) for a step down, the window
\* being the positions with a timestamp in [i * H, i * H + window_duration].
C8_OvershootFormula ==
    test = "analysis" =>
        /\ \A t \in 1 .. tr - 1 :
             WindowSamples(t * step_hold_time) # {} =>
                 \E e \in 1 .. Len(emitted) : emitted[e] = t
        /\ Len(emitted) = Len(overshoots)
        /\ \A e \in 1 .. Len(overshoots) :
             LET t == emitted[e]
                 vals == WindowValues(t * step_hold_time)
             IN  (vals # {} /\ \A v \in vals : IsNum(v)) =>
                     /\ NewTarget(t) > OldTarget(t) =>
                          IsClampedRatio(overshoots[e],
                                         100 * (Highest(vals) - NewTarget(t)),
                                         NewTarget(t) - OldTarget(t))
                     /\ NewTarget(t) < OldTarget(t) =>
                          IsClampedRatio(overshoots[e],
                                         100 * (NewTarget(t) - Lowest(vals)),
                                         OldTarget(t) - NewTarget(t))

\* The two documented examples: 0 to 10 over [0, 4, 11, 9, 10] and 10 to 0 over
\* [10, 6, -1, 2, 0] both give 10.0.
C8_Witness ==
    /\ test = "analysis" /\ pc = "return"
    /\ time_array = ExampleTimes /\ pos_array = ExamplePositions
    /\ step_size = 10 /\ step_hold_time = 3 /\ step_count = 1
    /\ overshoots = << Num(10), Num(10) >>

\* C9: when consecutive targets differ every entry is a number >= 0, never nan,
\* also when the window holds nan samples; a window whose numbers never pass
\* the new target gives exactly 0.
C9_OvershootNonNegative ==
    (test = "analysis" /\ step_size # 0) =>
        \A e \in 1 .. Len(overshoots) :
            LET t == emitted[e]
                nums == { v \in WindowValues(t * step_hold_time) : IsNum(v) }
            IN  /\ IsNum(overshoots[e])
                /\ overshoots[e].n >= 0 /\ overshoots[e].d > 0
                /\ (NewTarget(t) > OldTarget(t) /\ \A v \in nums : v.n <= NewTarget(t))
                       => overshoots[e] = Num(0)
                /\ (NewTarget(t) < OldTarget(t) /\ \A v \in nums : v.n >= NewTarget(t))
                       => overshoots[e] = Num(0)

\* A result with an entry for a window that holds a nan sample, and an entry
\* clamped from below zero.
C9_Witness ==
    /\ test = "analysis" /\ pc = "return" /\ step_size # 0
    /\ \E e \in 1 .. Len(overshoots) :
         NaN \in WindowValues(emitted[e] * step_hold_time)
    /\ \E e \in 1 .. Len(overshoots) :
         /\ WindowValues(emitted[e] * step_hold_time) = {Num(9)}
         /\ NewTarget(emitted[e]) = 10

\* C10: for the schedule of step_count = n and hold H, 2n transitions are
\* considered and the command time of transition i is i * H; the hold of the
\* last phase is never a command time.
C10_CommandTimes ==
    test = "analysis" =>
        /\ Len(steps_list) = 2 * step_count + 1
        /\ \A k \in 1 .. Len(command_times) : command_times[k] = k * step_hold_time
        /\ Len(command_times) = tr - 1
        /\ pc = "return" => Len(command_times) = 2 * step_count

\* step_count = 2 and hold 3: the command times are 3, 6, 9, 12.
C10_Witness ==
    /\ test = "analysis" /\ pc = "return"
    /\ step_count = 2 /\ step_hold_time = 3
    /\ command_times = << 3, 6, 9, 12 >>
\* The transitions considered so far whose window holds a sample.
NonEmptyTransitions == { t \in 1 .. tr - 1 : WindowSamples(t * step_hold_time) # {} }

\* C11: a transition whose window [command_time, command_time + window]
\* holds no sample adds no entry: the result has one entry per transition with
\* a non-empty window, and the entries are in transition order.
C11_EmptyWindowOmitted ==
    test = "analysis" =>
        /\ Len(overshoots) = Cardinality(NonEmptyTransitions)
        /\ Len(emitted) = Len(overshoots)
        /\ \A e \in 1 .. Len(emitted) :
             /\ emitted[e] \in NonEmptyTransitions
             /\ e = Cardinality({ t \in NonEmptyTransitions : t <= emitted[e] })

\* Four transitions, the second with an empty window between two with samples.
C11_Witness ==
    /\ test = "analysis" /\ pc = "return"
    /\ step_count = 2
    /\ emitted = << 1, 3, 4 >>
    /\ WindowSamples(2 * step_hold_time) = {}
    /\ Len(overshoots) = 3
\* C12: a transition between equal targets (step_size = 0) with a non-empty
\* window is signalled as an error instead of being divided by zero: no entry
\* of the result is infinite or nan, and the headline maximum of the result
\* is a finite number.
C12_ZeroDivisorSignalled ==
    test = "analysis" =>
        /\ \A e \in 1 .. Len(overshoots) : IsNum(overshoots[e])
        /\ IsNum(MaxOvershoot(overshoots))
\* The driver runs that returned, and those that raised.
Returned(c) == proc[c].run = "returned"
Raised(c) == proc[c].run = "raised"
\* Whether main has got past both joins.
Joined == main_pc \in {"get_sim", "get_real", "log", "complete", "done"}

\* C13: (a) main holds the record of a child only when that child's run has
\* returned and the child has exited, and it is that run's record; (b) when
\* both runs return, main is never stuck before completion, whatever the size
\* of the records: until it is done, some step of main, of a child or of a
\* queue can be taken.
C13_JoinThenCollect ==
    test = "main" =>
        /\ \A c \in Children :
             got[c].present =>
                 /\ Returned(c) /\ proc[c].st = "exited"
                 /\ got[c].rows = proc[c].rows
        /\ (\A c \in Children : Returned(c)) =>
               (main_pc = "done" \/ ENABLED NextMain)

\* C14: when a driver run raises (and every record put fits the pipe), main
\* gets past the joins only when both children have exited, does not exit 0,
\* and is never stuck before it has exited.
C14_FailureReported ==
    ( /\ test = "main"
      /\ \E c \in Children : Raised(c)
      /\ \A c \in Children : chan[c].sent <= PipeCapacity )
    =>
    ( /\ Joined => \A c \in Children : proc[c].st = "exited"
      /\ exit_code # "0"
      /\ (exit_code # "none" \/ ENABLED NextMain) )

\* C15: once a driver run has raised, main is still starting the other child,
\* or at a join or at a get, and goes no further than a get: it never reaches
\* the test of args.no_log, and no image is written.
C15_NoPlotAfterFailure ==
    (test = "main" /\ \E c \in Children : Raised(c)) =>
        /\ ~plot_saved
        /\ main_pc \in {"start_real", "join_sim", "join_real", "get_sim", "get_real"}

\* The real run raised after a row, the simulated run returned; main has
\* joined both, holds the simulated record and waits for the real one.
C15_Witness ==
    /\ test = "main" /\ ~no_log
    /\ Raised("real") /\ proc["real"].rows > 0 /\ proc["real"].st = "exited"
    /\ Returned("sim") /\ got["sim"].present
    /\ main_pc = "get_real"
\* The position commands of the run so far, in the order they were sent.
Commands == SelectSeq(rpc_log, LAMBDA r : r.op = "command")
Ended == pc \in {"done", "failed"}

\* C16: a step run with step_count = n awaits configure once, before any
\* command; its position commands are 0, step_size, 0, ..., 0, at most 2n + 1
\* of them and exactly 2n + 1 when the run is done; no query comes before the
\* first command; and the run ends: until it has ended it can take a step,
\* and a hold of H takes no sample after (samples - 1) * p has reached H.
C16_StepSequence ==
    test = "step" =>
        /\ configures <= 1
        /\ rpc_log # << >> => (configures = 1 /\ rpc_log[1].op = "command")
        /\ \A k \in 1 .. Len(Commands) :
             Commands[k].target = (IF k % 2 = 0 THEN step_size ELSE 0)
        /\ Len(Commands) <= 2 * step_count + 1
        /\ pc = "done" => Len(Commands) = 2 * step_count + 1
        /\ Ended \/ ENABLED StepNext
        /\ \A k \in 1 .. Len(phase_log) :
             (phase_log[k].samples - 1) * SamplePeriod < step_hold_time

\* A finished run of one step up and down whose commands were 0, step_size, 0.
C16_Witness ==
    /\ test = "step" /\ pc = "done" /\ step_count = 1
    /\ configures = 1
    /\ Len(Commands) = 3
    /\ Commands[2].target = step_size /\ step_size # 0
    /\ \E k \in 1 .. Len(rpc_log) : rpc_log[k].op = "query"
\* The rows logged by the phases of phase_log: one at each command, one for
\* each sample.
PhaseRows ==
    IF phase_log = << >> THEN 0
    ELSE phase_log[Len(phase_log)].row + phase_log[Len(phase_log)].samples
\* The entry of phase_log whose rows include row j.
PhaseOfRow(j) ==
    CHOOSE k \in 1 .. Len(phase_log) :
        phase_log[k].row <= j /\ j <= phase_log[k].row + phase_log[k].samples
\* Whether row j was logged at a command.
IsCommandRow(j) == \E k \in 1 .. Len(phase_log) : phase_log[k].row = j

\* C17: in a step run the command lists and the measurement lists have one
\* length at every point, row j of both has one timestamp, and the command
\* row beside a sample holds the target of the sample's phase and the
\* velocity limit.
C17_CommandRowPerSample ==
    test = "step" =>
        /\ Len(data_dict.cmd_time) = Len(data_dict.time)
        /\ \A j \in 1 .. Len(data_dict.time) :
             /\ data_dict.cmd_time[j] = data_dict.time[j]
             /\ data_dict.cmd_vel[j] = VelLimit
        /\ \A k \in 1 .. Len(phase_log) - 1 :
             phase_log[k + 1].row = phase_log[k].row + phase_log[k].samples + 1
        /\ \A j \in 1 .. PhaseRows :
             data_dict.cmd_pos[j] = StepTarget(phase_log[PhaseOfRow(j)].phase, step_size)
        /\ \A q \in 1 .. Len(query_log) :
             /\ query_log[q].idx <= PhaseRows
             /\ ~IsCommandRow(query_log[q].idx)

\* A finished run with a sample in the hold at step_size and one in a hold at 0.
C17_Witness ==
    /\ test = "step" /\ pc = "done" /\ step_count = 1
    /\ \E q, r \in 1 .. Len(query_log) :
         /\ data_dict.cmd_pos[query_log[q].idx] = step_size
         /\ data_dict.cmd_pos[query_log[r].idx] = 0
         /\ data_dict.time[query_log[q].idx] > data_dict.time[query_log[q].idx - 1]
\* The phases of phase_log whose hold has ended.
EndedPhases ==
    { k \in 1 .. Len(phase_log) : k < Len(phase_log) \/ pc = "done" }

\* C18: when every query of a step run took less than a sample period (and
\* every sleep returned on time), a hold of H >= p that has ended took H / p
\* samples, give or take one, and the command of the next phase was logged
\* less than a sample period after the end of the hold.
C18_StepHoldRate ==
    ( /\ test = "step"
      /\ step_hold_time >= SamplePeriod
      /\ \A q \in 1 .. Len(query_log) : query_log[q].lat < SamplePeriod
      /\ oversleeps = 0 )
    =>
    \A k \in EndedPhases :
        /\ phase_log[k].samples * SamplePeriod >= step_hold_time - SamplePeriod
        /\ phase_log[k].samples * SamplePeriod <= step_hold_time + SamplePeriod
        /\ k < Len(phase_log) =>
               phase_log[k + 1].start < phase_log[k].end_hold + SamplePeriod
\* C19: in a step run time, position and velocity hold one entry per
\* get_state query completed so far, and the entry of a query holds what the
\* endpoint returned for it, or nan: none is made up from the commanded target.
C19_OneEntryPerQuery ==
    test = "step" =>
        /\ Len(data_dict.time) = Len(query_log)
        /\ Len(data_dict.position) = Len(query_log)
        /\ Len(data_dict.velocity) = Len(query_log)
        /\ \A j \in 1 .. Len(data_dict.time) :
             \E q \in 1 .. Len(query_log) :
                 /\ query_log[q].idx = j
                 /\ data_dict.position[j] \in {query_log[q].resp.position, NaN}
                 /\ data_dict.velocity[j] \in {query_log[q].resp.velocity, NaN}
\* C20: in a sine run that queries the state, a command and a query are
\* awaited in turn and one at a time: no call is issued before the one before
\* it has returned; command i is issued at cmd_time[i] and query i returns at
\* time[i], so cmd_time[i] <= time[i] <= cmd_time[i + 1].  A query that
\* raised is the last call of its run and has no entry in time.
C20_SequentialCalls ==
    (test = "sine" /\ request_state) =>
        /\ \A k \in 1 .. Len(rpc_log) :
             /\ rpc_log[k].op = (IF k % 2 = 1 THEN "command" ELSE "query")
             /\ rpc_log[k].issued <= rpc_log[k].returned
             /\ k < Len(rpc_log) => rpc_log[k].returned <= rpc_log[k + 1].issued
             /\ k % 2 = 1 =>
                    rpc_log[k].issued = StartTime + data_dict.cmd_time[(k + 1) \div 2]
             /\ (k % 2 = 0 /\ k \div 2 <= Len(data_dict.time)) =>
                    rpc_log[k].returned = StartTime + data_dict.time[k \div 2]
        /\ Len(data_dict.time) =
               IF pc = "failed" /\ Len(rpc_log) > 0 /\ Len(rpc_log) % 2 = 0
               THEN Len(rpc_log) \div 2 - 1
               ELSE Len(rpc_log) \div 2
        /\ \A k \in 1 .. Len(data_dict.time) :
             /\ data_dict.cmd_time[k] <= data_dict.time[k]
             /\ k < Len(data_dict.cmd_time) =>
                    data_dict.time[k] <= data_dict.cmd_time[k + 1]

\* A finished run of two or more iterations whose first command and first
\* query both took time.
C20_Witness ==
    /\ test = "sine" /\ request_state /\ pc = "done" /\ steps >= 2
    /\ rpc_log[1].issued < rpc_log[1].returned
    /\ rpc_log[2].issued < rpc_log[2].returned
    /\ data_dict.time[1] < data_dict.cmd_time[2]
\* The schedule main builds for the run, and the nominal time of transition t.
RunSchedule == StepsList(step_size, step_hold_time, step_count)
NominalTime(t) == CommandTime(RunSchedule, t)

\* C21: in a finished step run the command of transition i was logged, and
\* then sent, no later than the nominal time i * H of the schedule, so every
\* row whose timestamp lies in [i * H, i * H + window] was recorded at or after
\* that command.
C21_WindowAfterDispatch ==
    (test = "step" /\ pc = "done") =>
        \A k \in 1 .. Len(phase_log) :
            phase_log[k].phase >= 1 =>
                LET t == phase_log[k].phase
                    sent == Elapsed(phase_log[k].start, StartTime)
                IN  /\ sent <= NominalTime(t)
                    /\ \A j \in 1 .. Len(data_dict.time) :
                         ( /\ NominalTime(t) <= data_dict.time[j]
                           /\ data_dict.time[j] <= NominalTime(t) + WindowDuration )
                         => sent <= data_dict.time[j]
\* C22: the headline figure of a step run is an entry of the result that no
\* entry exceeds, and 0.0 when the result is empty, as it is when step_count
\* is 0 and when no window holds a sample.
C22_HeadlineIsMaximum ==
    (test = "analysis" /\ pc = "headline") =>
        /\ overshoots = << >> => max_overshoot = Num(0)
        /\ overshoots # << >> =>
               /\ \E e \in 1 .. Len(overshoots) : overshoots[e] = max_overshoot
               /\ \A e \in 1 .. Len(overshoots) : ~FGt(overshoots[e], max_overshoot)
        /\ (step_count = 0 \/ NonEmptyTransitions = {}) => max_overshoot = Num(0)

\* A result of two entries, 10.0 and then 0.0, with the headline 10.0.
C22_Witness ==
    /\ test = "analysis" /\ pc = "headline"
    /\ overshoots = << Num(10), Num(0) >>
    /\ max_overshoot = Num(10)
\* The one configure_actuator call of the run.
TheConfigure == configure_log[1]
Keywords == DOMAIN TheConfigure.kwargs

\* C23: a run calls configure exactly once, before its first command, and
\* the call is fixed by the target and the mode: a real run passes kp, kd and
\* ki; a simulated run passes sim_kp and sim_kv as kp and kd; a simulated sine
\* run has used_ki = 0 and passes neither ki nor acceleration; a simulated
\* step run passes the real ki.
C23_GainSelection ==
    /\ Len(configure_log) <= 1
    /\ Len(configure_log) = configures
    /\ (pc # "configure" \/ rpc_log # << >> \/ data_dict # EmptyRecord)
           => Len(configure_log) = 1
    /\ Len(configure_log) = 1 =>
          /\ {"kp", "kd", "max_torque", "torque_enabled"} \subseteq Keywords
          /\ is_real =>
                /\ {"ki", "acceleration"} \subseteq Keywords
                /\ TheConfigure.kwargs.kp = kp
                /\ TheConfigure.kwargs.kd = kd
                /\ TheConfigure.kwargs.ki = ki
          /\ ~is_real =>
                /\ TheConfigure.kwargs.kp = sim_kp
                /\ TheConfigure.kwargs.kd = sim_kv
          /\ (~is_real /\ test = "sine") =>
                /\ TheConfigure.used.used_ki = 0
                /\ "ki" \notin Keywords
                /\ "acceleration" \notin Keywords
          /\ (~is_real /\ test = "step") =>
                /\ {"ki", "acceleration"} \subseteq Keywords
                /\ TheConfigure.kwargs.ki = ki

\* A simulated step run that ended after a step up, configured once with
\* sim_kp, sim_kv and the real ki.
C23_Witness ==
    /\ test = "step" /\ ~is_real /\ pc = "done" /\ step_count = 1
    /\ Len(configure_log) = 1
    /\ TheConfigure.kwargs.kp = sim_kp
    /\ TheConfigure.kwargs.kd = sim_kv
    /\ TheConfigure.kwargs.ki = ki
    /\ Len(data_dict.cmd_pos) > 1
\* The get_actuators_state calls of collect_data that returned a response.
Answered == Len(query_log)

\* C24: collect_data appends one sample for every query it issues before
\* stop_time, a not-a-number sample when the state list is empty, so that the
\* samples are as many as the queries answered; the loop ends once the clock
\* has passed stop_time.
C24_OneSamplePerQuery ==
    test = "collect" =>
        /\ Len(data_dict.time) = Len(data_dict.position)
        /\ Len(data_dict.time) = Len(data_dict.velocity)
        /\ Len(data_dict.time) = Answered
        /\ \A q \in 1 .. Answered :
              (q <= Len(data_dict.position) /\ query_log[q].resp.empty)
                  => IsNaN(data_dict.position[q])
        /\ pc = "done" => now > stop_time
        /\ (pc = "loop" /\ now > stop_time) => ENABLED CollectStop
====
